---- MODULE Spec2Model ----
(***************************************************************************)
(* A model of osquery's RocksDB database plugin                            *)
(* (osquery/database/plugins/rocksdb.cpp): the open/close/repair           *)
(* lifecycle of the store handle and its column-family handles, the        *)
(* process-wide corruption indicator, and the get/put/putBatch/remove/     *)
(* removeRange/scan operations.                                            *)
(*                                                                         *)
(* Byte strings (keys, values, prefixes) are sequences of small naturals.  *)
(* The file system is a partial function from path to directory content;  *)
(* a RocksDB directory holds one key->value map per column family.  The    *)
(* outcomes of the calls into RocksDB and into the file system (an open    *)
(* that fails, a commit that fails, a move that fails) are inputs of the   *)
(* actions.  Every handler is one action.                                  *)
(***************************************************************************)
EXTENDS Integers, Sequences, FiniteSets, TLC

VARIABLES
    initialized_,                 \* RocksDBDatabasePlugin::initialized_
    column_families_,             \* descriptors: a sequence of column family names
    path_,                        \* the path consumed by the last setUp
    handles_,                     \* one handle per opened column family (its name)
    db_,                          \* "nullptr" or "db"
    read_only_,                   \* RocksDBDatabasePlugin::read_only_
    kRocksDBCorruptionIndicator,  \* the process-wide atomic flag
    FLAGS_disable_events,         \* the flag Flag::updateValue("disable_events") sets
    fs,                           \* file system: existing path -> directory content
    crashed,                      \* the process died on a null/dangling dereference
    call,                         \* the last call: <<operation, arguments...>>
    ret,                          \* the Status the last call returned
    out,                          \* the last call's out-parameter (value, results)
    trace,                        \* what the last call did to RocksDB and the file system
    written,                      \* history: per domain, the committed key -> value map
    quarantine,                   \* history: the store at the database path since the
                                  \* corruption flag was last set (see Suspect below)
    close_mutex_,                 \* the thread that holds the lock of close(), or "free"
    pc,                           \* per thread: the call it is in and where in it
    heap                          \* history: every handle DB::Open made -> "live",
                                  \* "released" or "releasedTwice"

vars == <<initialized_, column_families_, path_, handles_, db_, read_only_,
          kRocksDBCorruptionIndicator, FLAGS_disable_events, fs, crashed,
          call, ret, out, trace, written, quarantine, close_mutex_, pc, heap>>

---------------------------------------------------------------------------
(* Bounds of the model.                                                    *)

\* Spec, SpecKV, SpecBatch: the longest batch putBatch is given.
MaxBatch == 2
\* SpecScan: the number of keys a domain may hold, and the largest limit.
NScanKeys == 5
MaxLimit == 2
\* SpecRange: the number of keys a domain may hold.
NRangeKeys == 4
\* SpecThreads: the number of times DB::Open succeeds.
MaxOpens == 2

---------------------------------------------------------------------------
(* Byte strings.                                                           *)

\* The keys the inputs are drawn from, most useful first: the empty key, a
\* key and its extension, a key above both, and keys that hold <<1>> inside.
KeyPool ==
    << <<>>, <<1>>, <<1, 1>>, <<2>>, <<2, 1>>, <<1, 2>>, <<2, 2>>, <<1, 1, 1>> >>

ValPool == << <<>>, <<1>>, <<2>>, <<1, 2>> >>

Min(a, b) == IF a < b THEN a ELSE b

KeysOf(n) == {KeyPool[i] : i \in 1..Min(n, Len(KeyPool))}
ValsOf(n) == {ValPool[i] : i \in 1..Min(n, Len(ValPool))}

\* std::string operator< : byte-lexicographic, a proper prefix is smaller.
RECURSIVE StrLess(_, _)
StrLess(a, b) ==
    IF b = <<>> THEN FALSE
    ELSE IF a = <<>> THEN TRUE
    ELSE IF a[1] # b[1] THEN a[1] < b[1]
    ELSE StrLess(Tail(a), Tail(b))

\* std::string operator<=
StrLeq(a, b) == ~StrLess(b, a)

npos == -1

\* std::string::find: the first position (from 0) at which sub occurs in s.
StrFind(s, sub) ==
    LET hits == {i \in 0..(Len(s) - Len(sub)) :
                    SubSeq(s, i + 1, i + Len(sub)) = sub}
    IN IF hits = {} THEN npos
       ELSE CHOOSE i \in hits : \A j \in hits : i <= j

\* The keys of a key->value map in ascending order: the order in which a
\* RocksDB iterator (SeekToFirst, Next) visits them.
RECURSIVE SortedKeys(_)
SortedKeys(ks) ==
    IF ks = {} THEN <<>>
    ELSE LET m == CHOOSE k \in ks : \A o \in ks : StrLeq(k, o)
         IN <<m>> \o SortedKeys(ks \ {m})

---------------------------------------------------------------------------
(* Maps.                                                                   *)

EmptyMap == [k \in {} |-> <<>>]

MapPut(m, k, v) == [x \in DOMAIN m \cup {k} |-> IF x = k THEN v ELSE m[x]]

MapDel(m, ks) == [x \in DOMAIN m \ ks |-> m[x]]

---------------------------------------------------------------------------
(* The fixed domain list and the database path.                            *)

\* osquery/database/database.cpp: the domains, in order; kEvents is one.
kEvents == "events"
kDomains == <<"configurations", kEvents>>
kDefaultColumnFamilyName == "default"

FLAGS_database_path == "/var/osquery/osquery.db"

Range(seq) == {seq[i] : i \in 1..Len(seq)}

\* std::find(kDomains.begin(), kDomains.end(), cf) - kDomains.begin(),
\* counted from 1: Len(kDomains) + 1 is kDomains.size().
DomainIndex(cf) ==
    IF cf \in Range(kDomains)
    THEN CHOOSE i \in 1..Len(kDomains) : kDomains[i] = cf
    ELSE Len(kDomains) + 1

---------------------------------------------------------------------------
(* Status values.                                                          *)

\* Status(code, message): the message is kept as its ": "-separated parts.
Status(code, msg) == [code |-> code, msg |-> msg]

\* rocksdb::Status by outcome: its code() and the parts of its ToString().
EngineStatus(outcome) ==
    CASE outcome = "ok" -> Status(0, <<"OK">>)
      [] outcome = "notfound" -> Status(1, <<"NotFound", "">>)
      [] outcome = "corruption" -> Status(2, <<"Corruption", "bad block">>)
      [] outcome = "invalid" -> Status(4, <<"Invalid argument", "end key comes before start key">>)
      [] outcome = "ioerror" ->
            Status(5, <<"IO error", "While appending to file",
                        "/var/osquery/osquery.db/000003.log", "No space left on device">>)

\* A test that takes every failed open for a corrupt store.
IsCorruption_AnyFailure(outcome) == outcome # "ok"

IsCorruption(outcome) == outcome = "corruption"
IsIOError(outcome) == outcome = "ioerror"

---------------------------------------------------------------------------
(* The file system.                                                        *)

pathExists(f, p) == p \in DOMAIN f

\* removePath: the directory is gone.
RemovePath(f, p) == [q \in DOMAIN f \ {p} |-> f[q]]

\* movePath (a rename): the content of from is now at to.
MovePath(f, from, to) ==
    [q \in (DOMAIN f \ {from}) \cup {to} |-> IF q = to THEN f[from] ELSE f[q]]

\* A directory RocksDB created for the given column families: all empty.
FreshStore(cfs) == [c \in Range(cfs) |-> EmptyMap]

---------------------------------------------------------------------------
(* The plugin and its world as one record, for the steps of a handler.     *)

Here ==
    [initialized_ |-> initialized_, column_families_ |-> column_families_,
     path_ |-> path_, handles_ |-> handles_, db_ |-> db_,
     read_only_ |-> read_only_, corrupted |-> kRocksDBCorruptionIndicator,
     disable_events |-> FLAGS_disable_events, fs |-> fs, trace |-> <<>>,
     written |-> written, quarantine |-> quarantine]

Log(s, event) == [s EXCEPT !.trace = Append(@, event)]

NoWrites == [d \in Range(kDomains) |-> EmptyMap]

\* The threads that may be inside close() or setUp() at the same time.
Threads == {"t1", "t2"}

Idle == [op |-> "idle", at |-> "idle", i |-> 0]

\* One call at a time: the lock is free and no thread is inside a call.
Sequential ==
    /\ close_mutex_ = "free"
    /\ pc = [t \in Threads |-> Idle]
    /\ heap = [o \in {} |-> "live"]

\* A handler returns: the record becomes the state.
Return(s, c, r, o) ==
    /\ initialized_' = s.initialized_
    /\ column_families_' = s.column_families_
    /\ path_' = s.path_
    /\ handles_' = s.handles_
    /\ db_' = s.db_
    /\ read_only_' = s.read_only_
    /\ kRocksDBCorruptionIndicator' = s.corrupted
    /\ FLAGS_disable_events' = s.disable_events
    /\ fs' = s.fs
    /\ written' = s.written
    /\ quarantine' = s.quarantine
    /\ trace' = s.trace
    /\ call' = c
    /\ ret' = r
    /\ out' = o
    /\ crashed' = FALSE
    /\ UNCHANGED <<close_mutex_, pc, heap>>

\* An outcome that matters only when the call it belongs to is made.
Choice(relevant) == IF relevant THEN BOOLEAN ELSE {TRUE}

---------------------------------------------------------------------------
(* History of the quarantine of a store marked corrupt.                    *)
(*   "clean"      no flag was set on the store at the database path;       *)
(*   "suspect"    the flag was set while that store existed, and the store *)
(*                has not been moved away since;                           *)
(*   "unrepaired" a repair of the suspect store failed: it is still there; *)
(*   "reopened"   the suspect store was opened with no repair attempted    *)
(*                or with none that failed;                                *)
(*   "reopenedUnrepaired"  the store was opened after its repair failed.   *)

\* The corruption flag is set.
Suspect(s) ==
    IF pathExists(s.fs, FLAGS_database_path) /\ s.quarantine # "reopened"
    THEN [s EXCEPT !.quarantine = "suspect"]
    ELSE s

\* The store was moved to the backup path.
Quarantined(s) ==
    IF s.quarantine # "reopened" THEN [s EXCEPT !.quarantine = "clean"] ELSE s

\* A repair gave up and left the store where it was.
Unrepaired(s) ==
    IF s.quarantine = "suspect" /\ pathExists(s.fs, s.path_)
    THEN [s EXCEPT !.quarantine = "unrepaired"]
    ELSE s

\* The engine is opened on the store at path_.
Reopened(s) ==
    IF ~pathExists(s.fs, s.path_) THEN s
    ELSE IF s.quarantine = "suspect" THEN [s EXCEPT !.quarantine = "reopened"]
    ELSE IF s.quarantine = "unrepaired" THEN [s EXCEPT !.quarantine = "reopenedUnrepaired"]
    ELSE s

---------------------------------------------------------------------------
(* repairDB, close, DB::Open.                                              *)

\* path_ + ".backup"
BackupPath(p) == p \o ".backup"

\* A repairDB that goes on to move the store when the previous backup could
\* not be removed.
repairDB_MoveAnyway(s, rmOk, mvOk) ==
    LET bpath == BackupPath(s.path_)
        s1 == IF pathExists(s.fs, bpath)
              THEN IF rmOk
                   THEN Log([s EXCEPT !.fs = RemovePath(@, bpath)], <<"removePath", "ok">>)
                   ELSE Log(s, <<"removePath", "failed">>)
              ELSE s
    IN IF pathExists(s1.fs, s1.path_) /\ mvOk
       THEN Log(Quarantined([s1 EXCEPT !.fs = MovePath(@, s1.path_, bpath),
                                       !.written = NoWrites]),
                <<"movePath", "ok">>)
       ELSE Log(Unrepaired(s1), <<"movePath", "failed">>)

\* A repairDB that copies the store to the backup path and leaves it where
\* it was.
repairDB_Copy(s, rmOk, mvOk) ==
    LET bpath == BackupPath(s.path_)
        hadBackup == pathExists(s.fs, bpath)
    IN IF hadBackup /\ ~rmOk
       THEN Log(Unrepaired(s), <<"removePath", "failed">>)
       ELSE LET s1 == IF hadBackup
                      THEN Log([s EXCEPT !.fs = RemovePath(@, bpath)],
                               <<"removePath", "ok">>)
                      ELSE s
            IN IF pathExists(s1.fs, s1.path_) /\ mvOk
               THEN Log([s1 EXCEPT !.fs = [q \in DOMAIN s1.fs \cup {bpath} |->
                                             IF q = bpath THEN s1.fs[s1.path_]
                                             ELSE s1.fs[q]]],
                        <<"movePath", "ok">>)
               ELSE Log(Unrepaired(s1), <<"movePath", "failed">>)

\* RocksDBDatabasePlugin::repairDB.  rmOk, mvOk: whether removePath and
\* movePath succeed when they are called on an existing path.
repairDB(s, rmOk, mvOk) ==
    LET bpath == BackupPath(s.path_)
        hadBackup == pathExists(s.fs, bpath)
    IN IF hadBackup /\ ~rmOk
       THEN Log(Unrepaired(s), <<"removePath", "failed">>)
       ELSE LET s1 == IF hadBackup
                      THEN Log([s EXCEPT !.fs = RemovePath(@, bpath)],
                               <<"removePath", "ok">>)
                      ELSE s
            IN IF pathExists(s1.fs, s1.path_) /\ mvOk
               THEN Log(Quarantined([s1 EXCEPT !.fs = MovePath(@, s1.path_, bpath),
                                               !.written = NoWrites]),
                        <<"movePath", "ok">>)
               ELSE Log(Unrepaired(s1), <<"movePath", "failed">>)

\* A close that clears the corruption flag and repairs nothing.
close_NoRepair(s, rmOk, mvOk) ==
    [s EXCEPT !.handles_ = <<>>, !.db_ = "nullptr", !.corrupted = FALSE,
              !.trace = Append(@, <<"close">>)]

\* RocksDBDatabasePlugin::close, under close_mutex_.
close(s, rmOk, mvOk) ==
    LET s1 == Log([s EXCEPT !.handles_ = <<>>, !.db_ = "nullptr"], <<"close">>)
    IN IF s1.corrupted
       THEN [repairDB(Log(s1, <<"repairDB">>), rmOk, mvOk) EXCEPT !.corrupted = FALSE]
       ELSE s1

\* rocksdb::DB::Open(options_, path_, column_families_, &handles_, &db_).
\* On success the directory exists (create_if_missing), there is one
\* handle per descriptor, in the descriptors' order, and db_ is set; on
\* failure RocksDB leaves no handles and a null db.
Open(s0, outcome) ==
    LET s == Reopened(s0)
    IN
    IF outcome = "ok"
    THEN Log([s EXCEPT !.db_ = "db",
                       !.handles_ = s.column_families_,
                       !.fs = IF pathExists(s.fs, s.path_) THEN s.fs
                              ELSE [q \in DOMAIN s.fs \cup {s.path_} |->
                                      IF q = s.path_
                                      THEN FreshStore(s.column_families_)
                                      ELSE s.fs[q]]],
             <<"Open", "ok">>)
    ELSE Log([s EXCEPT !.db_ = "nullptr", !.handles_ = <<>>], <<"Open", outcome>>)

\* What an open of the store at p can answer: only an existing store is
\* found corrupt.
OpenOutcomes(f, p) ==
    {"ok", "ioerror"} \cup (IF pathExists(f, p) THEN {"corruption"} ELSE {})

---------------------------------------------------------------------------
(* setUp.                                                                  *)

\* The one-time configuration of setUp: the descriptors are the default
\* column family followed by one per domain.
Configure(s) ==
    IF ~s.initialized_
    THEN [s EXCEPT !.initialized_ = TRUE,
                   !.column_families_ =
                       s.column_families_ \o <<kDefaultColumnFamilyName>> \o kDomains]
    ELSE s

\* An end of setUp that degrades before it asks whether writing is required.
FinishSetUp_DegradeFirst(s, c, openOutcome, kDBRequireWrite, chmodOk) ==
    LET failed == openOutcome # "ok" \/ s.db_ = "nullptr"
        s1 == IF failed
              THEN [s EXCEPT !.disable_events = TRUE, !.read_only_ = TRUE]
              ELSE s
    IN IF failed /\ kDBRequireWrite
       THEN Return(s1, c, Status(1, EngineStatus(openOutcome).msg), <<>>)
       ELSE IF ~s1.read_only_
       THEN IF ~chmodOk
            THEN Return(Log(s1, <<"platformChmod", "failed">>), c,
                        Status(1, <<"Cannot set permissions on RocksDB path",
                                    s1.path_>>), <<>>)
            ELSE Return(Log(s1, <<"platformChmod", "ok">>), c,
                        Status(0, <<"OK">>), <<>>)
       ELSE Return(s1, c, Status(0, <<"OK">>), <<>>)

\* The end of setUp, from the check of the open's result on.  openOutcome is
\* the last open's answer, chmodOk whether platformChmod succeeds.
FinishSetUp(s, c, openOutcome, kDBRequireWrite, chmodOk) ==
    LET failed == openOutcome # "ok" \/ s.db_ = "nullptr"
    IN IF failed /\ kDBRequireWrite
       THEN Return(s, c, Status(1, EngineStatus(openOutcome).msg), <<>>)
       ELSE LET s1 == IF failed
                      THEN [s EXCEPT !.disable_events = TRUE, !.read_only_ = TRUE]
                      ELSE s
            IN IF ~s1.read_only_
               THEN IF ~chmodOk
                    THEN Return(Log(s1, <<"platformChmod", "failed">>), c,
                                Status(1, <<"Cannot set permissions on RocksDB path",
                                            s1.path_>>), <<>>)
                    ELSE Return(Log(s1, <<"platformChmod", "ok">>), c,
                                Status(0, <<"OK">>), <<>>)
               ELSE Return(s1, c, Status(0, <<"OK">>), <<>>)

\* RocksDBDatabasePlugin::setUp.  kDBRequireWrite is the process's setting;
\* the outcomes of isReadable, of the file operations of the repairs, of
\* the opens and of platformChmod are chosen here.
SetUp(kDBRequireWrite) ==
    /\ ~crashed
    /\ LET c == <<"setUp", kDBRequireWrite>>
           s0 == [Configure(Here) EXCEPT !.path_ = FLAGS_database_path]
       IN \E readable \in Choice(pathExists(s0.fs, s0.path_)) :
            IF pathExists(s0.fs, s0.path_) /\ ~readable
            THEN Return(s0, c, Status(1, <<"Cannot read RocksDB path", s0.path_>>), <<>>)
            ELSE
              \E rm1 \in Choice(s0.corrupted /\ pathExists(s0.fs, BackupPath(s0.path_))),
                 mv1 \in Choice(s0.corrupted /\ pathExists(s0.fs, s0.path_)) :
                LET s1 == close(s0, rm1, mv1)
                IN \E o1 \in OpenOutcomes(s1.fs, s1.path_) :
                     LET s2 == Open(s1, o1)
                     IN IF IsCorruption(o1)
                        THEN \E rm2 \in Choice(pathExists(s2.fs, BackupPath(s2.path_))),
                                mv2 \in BOOLEAN :
                               LET s3 == repairDB(Log(s2, <<"repairDB">>), rm2, mv2)
                               IN \E o2 \in OpenOutcomes(s3.fs, s3.path_) :
                                    \E chmodOk \in Choice(o2 = "ok" /\ ~s3.read_only_) :
                                      FinishSetUp(Open(s3, o2), c, o2,
                                                  kDBRequireWrite, chmodOk)
                        ELSE \E chmodOk \in Choice(o1 = "ok" /\ ~s2.read_only_) :
                               FinishSetUp(s2, c, o1, kDBRequireWrite, chmodOk)

\* RocksDBDatabasePlugin::close (and tearDown, which only calls it).
Close ==
    /\ ~crashed
    /\ \E rmOk \in Choice(kRocksDBCorruptionIndicator
                            /\ pathExists(fs, BackupPath(path_))),
          mvOk \in Choice(kRocksDBCorruptionIndicator /\ pathExists(fs, path_)) :
         Return(close(Here, rmOk, mvOk), <<"close">>, Status(0, <<"OK">>), <<>>)

\* RocksDBDatabasePlugin::setCorrupted, called by a test or another system.
SetCorrupted(corrupted) ==
    /\ ~crashed
    /\ Return(IF corrupted THEN Suspect([Here EXCEPT !.corrupted = TRUE])
                            ELSE [Here EXCEPT !.corrupted = FALSE],
              <<"setCorrupted", corrupted>>, Status(0, <<"OK">>), <<>>)

---------------------------------------------------------------------------
(* Domain routing and the calls into the open engine.                      *)

\* A lookup that answers the first handle for every domain it knows.
getHandleForColumnFamily_First(s, cf) ==
    IF DomainIndex(cf) # Len(kDomains) + 1
    THEN IF 1 \in DOMAIN s.handles_ THEN s.handles_[1] ELSE "dangling"
    ELSE "nullptr"

\* RocksDBDatabasePlugin::getHandleForColumnFamily.  handles_[i] of a
\* vector that has no element i is an out-of-bounds read: "dangling".
getHandleForColumnFamily(s, cf) ==
    LET i == DomainIndex(cf)
    IN IF i # Len(kDomains) + 1
       THEN IF i \in DOMAIN s.handles_ THEN s.handles_[i] ELSE "dangling"
       ELSE "nullptr"

\* The column family of the open store a handle writes to and reads from.
CF(s, cfh) == s.fs[s.path_][cfh]

SetCF(s, cfh, m) == [s EXCEPT !.fs[s.path_][cfh] = m]

\* rocksdb::WriteOptions as the trace shows them.
OptionsText(options) ==
    <<IF options.sync THEN "sync" ELSE "nosync",
      IF options.disableWAL THEN "disableWAL" ELSE "WAL">>

DefaultWriteOptions == [sync |-> FALSE, disableWAL |-> FALSE]

\* WriteBatch::Put for each pair, in order, applied to a map.
RECURSIVE ApplyBatch(_, _)
ApplyBatch(m, data) ==
    IF data = <<>> THEN m
    ELSE ApplyBatch(MapPut(m, data[1][1], data[1][2]), Tail(data))

\* DB::Write(options, &batch): the whole batch or nothing.
Write(s, cfh, data, options, outcome) ==
    Log(IF outcome = "ok" THEN SetCF(s, cfh, ApplyBatch(CF(s, cfh), data)) ELSE s,
        <<"Write", cfh>> \o OptionsText(options) \o <<outcome>>)

\* DB::Delete(options, cfh, key).
Delete(s, cfh, key, options, outcome) ==
    Log(IF outcome = "ok" THEN SetCF(s, cfh, MapDel(CF(s, cfh), {key})) ELSE s,
        <<"Delete", cfh>> \o OptionsText(options) \o <<outcome>>)

\* DB::DeleteRange(options, cfh, low, high): the keys in [low, high).
DeleteRange(s, cfh, low, high, options, outcome) ==
    Log(IF outcome = "ok"
        THEN SetCF(s, cfh, MapDel(CF(s, cfh),
                 {k \in DOMAIN CF(s, cfh) : StrLeq(low, k) /\ StrLess(k, high)}))
        ELSE s,
        <<"DeleteRange", cfh>> \o OptionsText(options) \o <<outcome>>)

\* What a commit of a batch can answer.
WriteOutcomes == {"ok", "ioerror", "corruption"}

\* What a Delete can answer.
DeleteOutcomes == {"ok", "ioerror"}

\* What DeleteRange can answer: RocksDB versions differ on an inverted range.
RangeOutcomes(low, high) ==
    {"ok", "ioerror"} \cup (IF StrLess(high, low) THEN {"invalid"} ELSE {})

\* The process dies: a call through a null db_ or a dangling handle.
Crash(c) ==
    /\ crashed' = TRUE
    /\ call' = c
    /\ ret' = Status(-1, <<"no return">>)
    /\ out' = <<>>
    /\ trace' = <<>>
    /\ UNCHANGED <<initialized_, column_families_, path_, handles_, db_, read_only_,
                   kRocksDBCorruptionIndicator, FLAGS_disable_events, fs, written,
                   quarantine, close_mutex_, pc, heap>>

\* The value an out-of-bounds read of handles_ yields when it is not null.
UBChoices(s, domain) ==
    IF getHandleForColumnFamily(s, domain) = "dangling" THEN {"null", "wild"} ELSE {"null"}

NoHandle(cfh, ub) == cfh = "nullptr" \/ (cfh = "dangling" /\ ub = "null")

---------------------------------------------------------------------------
(* The history of committed writes, per domain.                            *)

\* The last value a batch gives each of its keys.
BatchMap(m, data) ==
    [k \in DOMAIN m \cup {data[i][1] : i \in 1..Len(data)} |->
        IF \E i \in 1..Len(data) : data[i][1] = k
        THEN LET last == CHOOSE i \in 1..Len(data) :
                            /\ data[i][1] = k
                            /\ \A j \in 1..Len(data) : data[j][1] = k => j <= i
             IN data[last][2]
        ELSE m[k]]

NoteWrite(s, domain, data, outcome) ==
    IF outcome = "ok"
    THEN [s EXCEPT !.written[domain] = BatchMap(@, data)]
    ELSE s

NoteDelete(s, domain, keys, outcome) ==
    IF outcome = "ok"
    THEN [s EXCEPT !.written[domain] = MapDel(@, keys)]
    ELSE s

---------------------------------------------------------------------------
(* get and scan.                                                           *)

\* What a call answers: the record after it, its Status, its out-parameter.
Answer(s, status, o) == [s |-> s, status |-> status, out |-> o]

NoColumnFamily(domain) == Status(1, <<"Could not get column family for " \o domain>>)

\* RocksDBDatabasePlugin::get (string value).  out is <<value>> when the
\* key is found, and left as it was (<<>>) otherwise.
get(s, domain, key) ==
    LET cfh == getHandleForColumnFamily(s, domain)
    IN IF s.db_ = "nullptr"
       THEN Answer(s, Status(1, <<"Database not opened">>), <<>>)
       ELSE IF cfh = "nullptr"
       THEN Answer(s, NoColumnFamily(domain), <<>>)
       ELSE IF key \in DOMAIN CF(s, cfh)
       THEN Answer(Log(s, <<"Get", cfh, "ok">>), EngineStatus("ok"), <<CF(s, cfh)[key]>>)
       ELSE Answer(Log(s, <<"Get", cfh, "notfound">>), EngineStatus("notfound"), <<>>)

Get(domain, key) ==
    /\ ~crashed
    /\ LET a == get(Here, domain, key)
       IN Return(a.s, <<"get", domain, key>>, a.status, a.out)

\* A loop that counts every key it visits towards max.
RECURSIVE ScanLoop_CountAll(_, _, _, _, _)
ScanLoop_CountAll(keys, results, prefix, max, count) ==
    IF keys = <<>> THEN results
    ELSE LET r == IF StrFind(keys[1], prefix) = 0
                  THEN Append(results, keys[1])
                  ELSE results
         IN IF max > 0 /\ count + 1 >= max
            THEN r
            ELSE ScanLoop_CountAll(Tail(keys), r, prefix, max, count + 1)

\* The loop of scan over the keys an iterator yields: a key is kept when
\* the prefix is found at its start; the loop ends at max kept keys.
RECURSIVE ScanLoop(_, _, _, _, _)
ScanLoop(keys, results, prefix, max, count) ==
    IF keys = <<>> THEN results
    ELSE IF StrFind(keys[1], prefix) = 0
    THEN IF max > 0 /\ count + 1 >= max
         THEN Append(results, keys[1])
         ELSE ScanLoop(Tail(keys), Append(results, keys[1]), prefix, max, count + 1)
    ELSE ScanLoop(Tail(keys), results, prefix, max, count)

\* RocksDBDatabasePlugin::scan.  results is the caller's vector, which scan
\* appends to; NewIterator always answers with an iterator.
scan(s, domain, results, prefix, max) ==
    LET cfh == getHandleForColumnFamily(s, domain)
    IN IF s.db_ = "nullptr"
       THEN Answer(s, Status(1, <<"Database not opened">>), results)
       ELSE IF cfh = "nullptr"
       THEN Answer(s, NoColumnFamily(domain), results)
       ELSE Answer(Log(s, <<"NewIterator", cfh>>), Status(0, <<"OK">>),
                   ScanLoop(SortedKeys(DOMAIN CF(s, cfh)), results, prefix, max, 0))

Scan(domain, results, prefix, max) ==
    /\ ~crashed
    /\ LET a == scan(Here, domain, results, prefix, max)
       IN Return(a.s, <<"scan", domain, results, prefix, max>>, a.status, a.out)

---------------------------------------------------------------------------
(* put, putBatch, remove, removeRange.                                     *)

\* The Status putBatch returns for the engine's answer: an I/O error keeps
\* only what follows the last colon of the engine's text.
PutBatchStatus(outcome) ==
    LET st == EngineStatus(outcome)
    IN IF st.code # 0 /\ IsIOError(outcome) /\ Len(st.msg) > 1
       THEN Status(st.code, <<"IOError", st.msg[Len(st.msg)]>>)
       ELSE st

\* The write options putBatch chooses for a domain.
PutOptions(domain) ==
    IF kEvents = domain
    THEN [DefaultWriteOptions EXCEPT !.disableWAL = TRUE]
    ELSE [DefaultWriteOptions EXCEPT !.sync = TRUE]

\* The write options of remove and removeRange.
RemoveOptions(domain) ==
    IF kEvents # domain
    THEN [DefaultWriteOptions EXCEPT !.sync = TRUE]
    ELSE DefaultWriteOptions

\* A commit that writes pair by pair: a failure leaves the first pair.
CommitBatch_Pairwise(s, cfh, data, options, outcome) ==
    IF outcome = "ok" \/ data = <<>>
    THEN Write(s, cfh, data, options, outcome)
    ELSE Log(SetCF(s, cfh, ApplyBatch(CF(s, cfh), <<data[1]>>)),
             <<"Write", cfh>> \o OptionsText(options) \o <<outcome>>)

\* putBatch's commit: one WriteBatch holding a Put per pair, one Write.
CommitBatch(s, cfh, data, options, outcome) == Write(s, cfh, data, options, outcome)

\* The start of every write: the read-only answer, the handle lookup, and
\* the use of db_.  "go" when the engine call is reached.
WriteGate(s, domain, ub) ==
    LET cfh == getHandleForColumnFamily(s, domain)
    IN IF s.read_only_ THEN "readonly"
       ELSE IF NoHandle(cfh, ub) THEN "nohandle"
       ELSE IF s.db_ = "nullptr" THEN "crash"
       ELSE "go"

\* Early returns that take an unknown domain for the read-only mode.
Ungated_AsReadOnly(s, c, domain, gate) ==
    IF gate \in {"readonly", "nohandle"}
    THEN Return(s, c, Status(0, <<"Database in readonly mode">>), <<>>)
    ELSE Crash(c)

\* What a write answers when its engine call is not reached.
Ungated(s, c, domain, gate) ==
    IF gate = "readonly"
    THEN Return(s, c, Status(0, <<"Database in readonly mode">>), <<>>)
    ELSE IF gate = "nohandle"
    THEN Return(s, c, NoColumnFamily(domain), <<>>)
    ELSE Crash(c)

\* RocksDBDatabasePlugin::putBatch, called as c (putBatch itself, or put).
putBatch(c, domain, data) ==
    LET s == Here
        cfh == getHandleForColumnFamily(s, domain)
    IN \E ub \in UBChoices(s, domain) :
         IF WriteGate(s, domain, ub) # "go"
         THEN Ungated(s, c, domain, WriteGate(s, domain, ub))
         ELSE \E outcome \in WriteOutcomes :
                Return(NoteWrite(CommitBatch(s, cfh, data, PutOptions(domain), outcome),
                                 domain, data, outcome),
                       c, PutBatchStatus(outcome), <<>>)

PutBatch(domain, data) ==
    /\ ~crashed
    /\ putBatch(<<"putBatch", domain, data>>, domain, data)

\* RocksDBDatabasePlugin::put (string value): putBatch of the one pair.
Put(domain, key, value) ==
    /\ ~crashed
    /\ putBatch(<<"put", domain, key, value>>, domain, <<(<<key, value>>)>>)

\* RocksDBDatabasePlugin::remove.
Remove(domain, key) ==
    /\ ~crashed
    /\ LET c == <<"remove", domain, key>>
           s == Here
           cfh == getHandleForColumnFamily(s, domain)
       IN \E ub \in UBChoices(s, domain) :
            IF WriteGate(s, domain, ub) # "go"
            THEN Ungated(s, c, domain, WriteGate(s, domain, ub))
            ELSE \E outcome \in DeleteOutcomes :
                   Return(NoteDelete(Delete(s, cfh, key, RemoveOptions(domain), outcome),
                                     domain, {key}, outcome),
                          c, EngineStatus(outcome), <<>>)

\* A removeRange that leaves it at DeleteRange: [low, high).
removeRange_HalfOpen(s, domain, cfh, low, high, o1, o2) ==
    LET options == RemoveOptions(domain)
    IN Answer(NoteDelete(DeleteRange(s, cfh, low, high, options, o1), domain,
                         {k \in DOMAIN s.written[domain] :
                             StrLeq(low, k) /\ StrLess(k, high)}, o1),
              EngineStatus(o1), <<>>)

\* The engine calls of removeRange: DeleteRange, then Delete of high when
\* low <= high.  The Status is that of the last call made.
removeRange(s, domain, cfh, low, high, o1, o2) ==
    LET options == RemoveOptions(domain)
        s1 == NoteDelete(DeleteRange(s, cfh, low, high, options, o1), domain,
                         {k \in DOMAIN s.written[domain] :
                             StrLeq(low, k) /\ StrLess(k, high)}, o1)
    IN IF StrLeq(low, high)
       THEN Answer(NoteDelete(Delete(s1, cfh, high, options, o2), domain, {high}, o2),
                   EngineStatus(o2), <<>>)
       ELSE Answer(s1, EngineStatus(o1), <<>>)

\* RocksDBDatabasePlugin::removeRange.
RemoveRange(domain, low, high) ==
    /\ ~crashed
    /\ LET c == <<"removeRange", domain, low, high>>
           s == Here
           cfh == getHandleForColumnFamily(s, domain)
       IN \E ub \in UBChoices(s, domain) :
            IF WriteGate(s, domain, ub) # "go"
            THEN Ungated(s, c, domain, WriteGate(s, domain, ub))
            ELSE \E o1 \in RangeOutcomes(low, high),
                    o2 \in (IF StrLeq(low, high) THEN DeleteOutcomes ELSE {"ok"}) :
                   LET a == removeRange(s, domain, cfh, low, high, o1, o2)
                   IN Return(a.s, c, a.status, a.out)

---------------------------------------------------------------------------
(* The log interceptor.                                                    *)

\* char buffer[501]; vsnprintf(buffer, 500, ...): the size given to
\* vsnprintf, which keeps that many characters less one.
kLogBufferSize == 500

\* The number of characters of the phrases log lines are made of.
PhraseLen(phrase) ==
    CASE phrase = "Corruption:" -> 11
      [] phrase = "Error when reading" -> 18
      [] OTHER -> 10

\* Engine log lines after formatting: the first two characters, then the
\* phrases the line holds, each with the offset of its first character.
LogLines ==
    { <<"[", "E", <<"Corruption:", 10>> >>,
      <<"[", "W", <<"Error when reading", 10>> >>,
      <<"[", "W", <<"Compaction", 10>> >>,
      <<"[", "I", <<"Corruption:", 10>> >>,
      <<"R", "o", <<"Corruption:", 10>> >>,
      <<"[", "W", <<"Error when reading", 10>>, <<"Corruption:", 40>> >>,
      <<"[", "E", <<"Corruption:", kLogBufferSize - 12>> >>,
      <<"[", "E", <<"Corruption:", kLogBufferSize - 11>> >> }

\* log_line.find(phrase) != npos, log_line being what the buffer kept of
\* the line.
InLogLine(line, phrase) ==
    \E i \in 3..Len(line) :
       line[i][1] = phrase /\ line[i][2] + PhraseLen(phrase) <= kLogBufferSize - 1

\* A Logv that looks for the marker in lines of every level.
Logv_EveryLevel(line) ==
    /\ ~crashed
    /\ LET c == <<"Logv", line>>
           s == Here
           s1 == IF ~InLogLine(line, "Error when reading")
                 THEN Log(s, <<"LOG(INFO)">>)
                 ELSE s
       IN IF InLogLine(line, "Corruption:")
          THEN Return(Suspect([s1 EXCEPT !.corrupted = TRUE]), c, Status(0, <<"OK">>), <<>>)
          ELSE Return(s1, c, Status(0, <<"OK">>), <<>>)

\* GlogRocksDBLogger::Logv.
Logv(line) ==
    /\ ~crashed
    /\ LET c == <<"Logv", line>>
           s == Here
       IN IF line[1] # "[" \/ (line[2] # "E" /\ line[2] # "W")
          THEN Return(s, c, Status(0, <<"OK">>), <<>>)
          ELSE LET s1 == IF ~InLogLine(line, "Error when reading")
                         THEN Log(s, <<"LOG(INFO)">>)
                         ELSE s
               IN IF InLogLine(line, "Corruption:")
                  THEN Return(Suspect([s1 EXCEPT !.corrupted = TRUE]), c,
                              Status(0, <<"OK">>), <<>>)
                  ELSE Return(s1, c, Status(0, <<"OK">>), <<>>)

---------------------------------------------------------------------------
(* Inputs.                                                                 *)

\* The domain names the calls are given: the fixed list and an unknown one.
DomainInputs == Range(kDomains) \cup {"bogus"}

\* Sequences of at most n elements of S.
SeqsUpTo(S, n) == UNION {[1..k -> S] : k \in 0..n}

\* Spec: the lifecycle model writes one key and one value.
LifeKeys == {KeyPool[2]}
LifeVals == {ValPool[2]}

\* The batch that writes the given keys, the i-th with the i-th value.
BatchOf(keys) == [i \in 1..Len(keys) |-> <<keys[i], ValPool[i]>>]

---------------------------------------------------------------------------

Init ==
    /\ initialized_ = FALSE
    /\ column_families_ = <<>>
    /\ path_ = ""
    /\ handles_ = <<>>
    /\ db_ = "nullptr"
    /\ read_only_ = FALSE
    /\ kRocksDBCorruptionIndicator = FALSE
    /\ FLAGS_disable_events = FALSE
    /\ fs = [p \in {} |-> <<>>]
    /\ crashed = FALSE
    /\ call = <<"constructed">>
    /\ ret = Status(0, <<"OK">>)
    /\ out = <<>>
    /\ trace = <<>>
    /\ written = NoWrites
    /\ quarantine = "clean"
    /\ Sequential

Next ==
    \/ \E rw \in BOOLEAN : SetUp(rw)
    \/ Close
    \/ SetCorrupted(TRUE)
    \/ \E line \in LogLines : Logv(line)
    \/ \E d \in DomainInputs, k \in LifeKeys : Get(d, k)
    \/ \E d \in DomainInputs, k \in LifeKeys, v \in LifeVals : Put(d, k, v)
    \/ \E d \in DomainInputs, data \in SeqsUpTo(LifeKeys \X LifeVals, MaxBatch) :
          PutBatch(d, data)
    \/ \E d \in DomainInputs, k \in LifeKeys : Remove(d, k)
    \/ \E d \in DomainInputs, lo \in LifeKeys, hi \in LifeKeys : RemoveRange(d, lo, hi)
    \/ \E d \in DomainInputs, p \in LifeKeys, max \in 0..1 : Scan(d, <<>>, p, max)

Spec == Init /\ [][Next]_vars

---------------------------------------------------------------------------
(* The open engine on its own: the state a first setUp that opened the     *)
(* store for writing leaves, with the given content per domain.            *)

Descriptors == <<kDefaultColumnFamilyName>> \o kDomains

\* The directory in which each domain's column family holds the given map.
StoreHolding(content) ==
    [c \in Range(Descriptors) |->
        IF \E d \in Range(kDomains) : Descriptors[DomainIndex(d)] = c
        THEN content[CHOOSE d \in Range(kDomains) : Descriptors[DomainIndex(d)] = c]
        ELSE EmptyMap]

OpenWith(content) ==
    /\ initialized_ = TRUE
    /\ column_families_ = Descriptors
    /\ path_ = FLAGS_database_path
    /\ handles_ = Descriptors
    /\ db_ = "db"
    /\ read_only_ = FALSE
    /\ kRocksDBCorruptionIndicator = FALSE
    /\ FLAGS_disable_events = FALSE
    /\ fs = [p \in {FLAGS_database_path} |-> StoreHolding(content)]
    /\ crashed = FALSE
    /\ call = <<"setUp", TRUE>>
    /\ ret = Status(0, <<"OK">>)
    /\ out = <<>>
    /\ trace = << <<"close">>, <<"Open", "ok">>, <<"platformChmod", "ok">> >>
    /\ written = content
    /\ quarantine = "clean"
    /\ Sequential

\* Maps that hold some of the given keys, each with the empty value.
KeySets(keys) == {[k \in ks |-> <<>>] : ks \in SUBSET keys}

\* SpecKV: reads and writes on an engine opened on a new store.
KvKeys == {KeyPool[1], KeyPool[2]}
KvVals == {ValPool[1], ValPool[2]}

InitKV == OpenWith(NoWrites)

NextKV ==
    \/ \E d \in Range(kDomains), k \in KvKeys : Get(d, k)
    \/ \E d \in Range(kDomains), k \in KvKeys, v \in KvVals : Put(d, k, v)
    \/ \E d \in Range(kDomains), keys \in SeqsUpTo(KvKeys, MaxBatch) :
          PutBatch(d, BatchOf(keys))
    \/ \E d \in Range(kDomains), k \in KvKeys : Remove(d, k)
    \/ \E d \in Range(kDomains), lo \in KvKeys, hi \in KvKeys : RemoveRange(d, lo, hi)
    \/ \E d \in Range(kDomains), p \in KvKeys : Scan(d, <<>>, p, 0)

SpecKV == InitKV /\ [][NextKV]_vars

\* SpecBatch: batches to the events domain, and removals between them, on
\* an engine opened on a new store.
InitBatch == OpenWith(NoWrites)

NextBatch ==
    \/ \E keys \in SeqsUpTo(KvKeys, MaxBatch) : PutBatch(kEvents, BatchOf(keys))
    \/ \E k \in KvKeys : Remove(kEvents, k)

SpecBatch == InitBatch /\ [][NextBatch]_vars

\* SpecScan: scan on an open engine whose first domain holds any of the keys.
ScanKeys == KeysOf(NScanKeys)

InitScan ==
    \E m \in KeySets(ScanKeys) : OpenWith([NoWrites EXCEPT ![kDomains[1]] = m])

NextScan ==
    \E d \in DomainInputs, results \in {<<>>, <<KeyPool[4]>>}, p \in ScanKeys,
       max \in 0..MaxLimit : Scan(d, results, p, max)

SpecScan == InitScan /\ [][NextScan]_vars

\* SpecRange: removeRange on an open engine whose domains hold any of the keys.
RangeKeys == KeysOf(NRangeKeys)

\* The keys a range starts and ends at.
RangeEnds == {KeyPool[1], KeyPool[2], KeyPool[3]}

InitRange ==
    \E m1 \in KeySets(RangeKeys), m2 \in KeySets({KeyPool[2]}) :
       OpenWith([d \in Range(kDomains) |-> IF d = kDomains[1] THEN m1 ELSE m2])

NextRange ==
    \E d \in Range(kDomains), lo \in RangeEnds, hi \in RangeEnds : RemoveRange(d, lo, hi)

SpecRange == InitRange /\ [][NextRange]_vars

---------------------------------------------------------------------------
(* close() and setUp() step by step, for threads that run them at the same *)
(* time.  A step is one read or write of handles_ or db_, or the taking    *)
(* or giving back of close_mutex_.                                         *)

\* The generations of handles DB::Open has made.
Opened == {o[2] : o \in DOMAIN heap}

\* delete o.
Release(h, o) ==
    [x \in DOMAIN h \cup {o} |->
        IF x # o THEN h[x]
        ELSE IF o \in DOMAIN h /\ h[o] = "live" THEN "released"
        ELSE "releasedTwice"]

At_(t, op, at) == pc[t].op = op /\ pc[t].at = at

Goto(t, op, at, i) == pc' = [pc EXCEPT ![t] = [op |-> op, at |-> at, i |-> i]]

\* What no step of close() or setUp() touches here: the flag stays unset,
\* so close() does not repair.
ThreadFrame ==
    UNCHANGED <<read_only_, kRocksDBCorruptionIndicator, FLAGS_disable_events, fs,
                crashed, call, ret, out, trace, written, quarantine>>

Configured == UNCHANGED <<initialized_, column_families_, path_>>

\* A thread calls close().
CallClose(t) ==
    /\ pc[t] = Idle
    /\ Goto(t, "close", "lock", 0)
    /\ UNCHANGED <<handles_, db_, close_mutex_, heap>>
    /\ Configured /\ ThreadFrame

\* A thread calls setUp(): the configuration and path_, up to the call of
\* close().
CallSetUp(t) ==
    /\ pc[t] = Idle
    /\ Cardinality(Opened) < MaxOpens
    /\ LET s == [Configure(Here) EXCEPT !.path_ = FLAGS_database_path]
       IN /\ initialized_' = s.initialized_
          /\ column_families_' = s.column_families_
          /\ path_' = s.path_
    /\ Goto(t, "setUp", "lock", 0)
    /\ UNCHANGED <<handles_, db_, close_mutex_, heap>>
    /\ ThreadFrame

\* WriteLock lock(close_mutex_).
Lock(t) ==
    /\ pc[t].at = "lock"
    /\ close_mutex_ = "free"
    /\ close_mutex_' = t
    /\ Goto(t, pc[t].op, "handles", 1)
    /\ UNCHANGED <<handles_, db_, heap>>
    /\ Configured /\ ThreadFrame

\* for (auto handle : handles_) delete handle;  one handle.
DeleteHandle(t) ==
    /\ pc[t].at = "handles"
    /\ pc[t].i <= Len(handles_)
    /\ heap' = Release(heap, handles_[pc[t].i])
    /\ Goto(t, pc[t].op, "handles", pc[t].i + 1)
    /\ UNCHANGED <<handles_, db_, close_mutex_>>
    /\ Configured /\ ThreadFrame

\* handles_.clear().
ClearHandles(t) ==
    /\ pc[t].at = "handles"
    /\ pc[t].i > Len(handles_)
    /\ handles_' = <<>>
    /\ Goto(t, pc[t].op, "db", 0)
    /\ UNCHANGED <<db_, close_mutex_, heap>>
    /\ Configured /\ ThreadFrame

\* if (db_ != nullptr) { delete db_; db_ = nullptr; }
DeleteDB(t) ==
    /\ pc[t].at = "db"
    /\ IF db_ # "nullptr"
       THEN heap' = Release(heap, db_) /\ db_' = "nullptr"
       ELSE UNCHANGED <<heap, db_>>
    /\ Goto(t, pc[t].op, "unlock", 0)
    /\ UNCHANGED <<handles_, close_mutex_>>
    /\ Configured /\ ThreadFrame

\* The end of close(): the lock is given back; setUp() goes on to DB::Open.
Unlock(t) ==
    /\ pc[t].at = "unlock"
    /\ close_mutex_' = "free"
    /\ IF pc[t].op = "setUp" THEN Goto(t, "setUp", "open", 0) ELSE pc' = [pc EXCEPT ![t] = Idle]
    /\ UNCHANGED <<handles_, db_, heap>>
    /\ Configured /\ ThreadFrame

\* rocksdb::DB::Open(options_, path_, column_families_, &handles_, &db_) in
\* setUp(), which holds no lock here, and the return of setUp().
OpenEngine(t, outcome) ==
    /\ At_(t, "setUp", "open")
    /\ LET n == Cardinality(Opened) + 1
           made == [i \in 1..Len(column_families_) |-> <<column_families_[i], n>>]
       IN IF outcome = "ok"
          THEN /\ handles_' = made
               /\ db_' = <<"db", n>>
               /\ heap' = [o \in DOMAIN heap \cup Range(made) \cup {<<"db", n>>} |->
                              IF o \in DOMAIN heap THEN heap[o] ELSE "live"]
          ELSE /\ handles_' = <<>>
               /\ db_' = "nullptr"
               /\ heap' = heap
    /\ pc' = [pc EXCEPT ![t] = Idle]
    /\ UNCHANGED close_mutex_
    /\ Configured /\ ThreadFrame

\* SpecThreads: one thread calls close(), the other close() or setUp().
InitThreads == Init

NextThreads ==
    \/ \E t \in Threads : CallClose(t)
    \/ CallSetUp("t2")
    \/ \E t \in Threads : Lock(t)
    \/ \E t \in Threads : DeleteHandle(t)
    \/ \E t \in Threads : ClearHandles(t)
    \/ \E t \in Threads : DeleteDB(t)
    \/ \E t \in Threads : Unlock(t)
    \/ \E outcome \in {"ok", "ioerror"} : OpenEngine("t2", outcome)

SpecThreads == InitThreads /\ [][NextThreads]_vars

---------------------------------------------------------------------------
(* What the claims speak of.                                               *)

WriteOps == {"put", "putBatch", "remove", "removeRange"}

NotFound == EngineStatus("notfound")

\* Open, not OpenReadOnly: a store handle is held and writes are not skipped.
EngineOpen == db_ = "db" /\ ~read_only_ /\ ~crashed

\* What get answers for a key: its status and its out-parameter.
Shown(s, d, k) == LET a == get(s, d, k) IN <<a.status, a.out>>

Missing == <<NotFound, <<>>>>

\* The keys scan lists for a domain, with no prefix and no limit.
Listed(s, d) == Range(scan(s, d, <<>>, <<>>, 0).out)

\* p is a prefix of k.
HasPrefix(k, p) == Len(p) <= Len(k) /\ \A i \in 1..Len(p) : k[i] = p[i]

\* The plugin after the step.
There == Here'

\* The outcomes of the engine and file-system calls the last call made.
Outcomes(tr, what) == {tr[i][Len(tr[i])] : i \in {j \in 1..Len(tr) : tr[j][1] = what}}

---------------------------------------------------------------------------
(* C1: in read-only mode every put, putBatch, remove and removeRange       *)
(* returns success and changes no stored record, and a get of the key a    *)
(* read-only put "wrote" answers NotFound.                                 *)
C1_ReadOnlyWritesThenNotFound ==
    [][/\ (read_only_ /\ call'[1] \in WriteOps) => (ret'.code = 0 /\ fs' = fs)
       /\ (/\ read_only_
           /\ call[1] = "put" /\ ret.code = 0
           /\ call' = <<"get", call[2], call[3]>>)
          => (ret' = NotFound /\ out' = <<>>)]_vars

(* C2: on an open engine get(D, K) answers the value most recently         *)
(* committed to (D, K) and not removed since (the later value of a key     *)
(* written twice, empty keys and values included) and NotFound, not an     *)
(* error, when there is none; the last get call answered so.               *)
C2_GetReturnsLastWrite ==
    EngineOpen =>
      /\ \A d \in Range(kDomains), k \in Range(KeyPool) :
           LET a == get(Here, d, k)
           IN IF k \in DOMAIN written[d]
              THEN a.status.code = 0 /\ a.out = <<written[d][k]>>
              ELSE a.status = NotFound /\ a.out = <<>>
      /\ (call[1] = "get" /\ call[2] \in Range(kDomains)) =>
           IF call[3] \in DOMAIN written[call[2]]
           THEN ret.code = 0 /\ out = <<written[call[2]][call[3]]>>
           ELSE ret = NotFound /\ out = <<>>

\* A get of the empty key answered the empty value, while the other domain
\* holds another value under the same key.
C2_Witness ==
    /\ EngineOpen
    /\ call = <<"get", kDomains[2], <<>>>>
    /\ ret.code = 0 /\ out = << <<>> >>
    /\ <<>> \in DOMAIN written[kDomains[1]]
    /\ written[kDomains[1]][<<>>] = <<1>>

C4_RemoveRangeInclusiveWhenEngineSucceeds ==
    [][(EngineOpen /\ call'[1] = "removeRange" /\ call'[2] \in Range(kDomains))
       => LET d == call'[2]
              low == call'[3]
              high == call'[4]
          IN /\ \A k \in Range(KeyPool) :
                  Shown(There, d, k) =
                    IF /\ StrLeq(low, high)
                       /\ \/ /\ StrLeq(low, k) /\ StrLess(k, high)
                             /\ Outcomes(trace', "DeleteRange") \subseteq {"ok"}
                          \/ /\ k = high
                             /\ Outcomes(trace', "Delete") \subseteq {"ok"}
                    THEN Missing
                    ELSE Shown(Here, d, k)
             /\ \A o \in Range(kDomains) \ {d} : \A k \in Range(KeyPool) :
                  Shown(There, o, k) = Shown(Here, o, k)]_vars

\* C4 as the specification words it: whatever the engine answers,
\* removeRange(D, low, high) with low <= high leaves in D exactly the keys
\* < low or > high.
C4_RemoveRangeInclusiveAlways ==
    [][(/\ EngineOpen /\ call'[1] = "removeRange" /\ call'[2] \in Range(kDomains)
        /\ StrLeq(call'[3], call'[4]))
       => \A k \in Range(KeyPool) :
             Shown(There, call'[2], k) =
               IF StrLess(k, call'[3]) \/ StrLess(call'[4], k)
               THEN Shown(Here, call'[2], k)
               ELSE Missing]_vars

\* A removeRange with low < high succeeded and left a key below low and a
\* key above high.
C4_Witness ==
    /\ call[1] = "removeRange" /\ call[2] = kDomains[1]
    /\ StrLess(call[3], call[4])
    /\ ret.code = 0
    /\ Outcomes(trace, "DeleteRange") = {"ok"}
    /\ \E k \in DOMAIN written[kDomains[1]] : StrLess(k, call[3])
    /\ \E k \in DOMAIN written[kDomains[1]] : StrLess(call[4], k)
    /\ written[kDomains[2]] # EmptyMap

(* C5: putBatch is all-or-nothing: when it answers a failure no domain     *)
(* shows anything it did not show before, to get or to scan; when it       *)
(* answers success every pair of the batch is shown (for a key the batch   *)
(* holds more than once, its last pair).                                   *)
C5_PutBatchAtomic ==
    [][(EngineOpen /\ call'[1] = "putBatch" /\ call'[2] \in Range(kDomains))
       => LET d == call'[2]
              data == call'[3]
          IN /\ ret'.code # 0 =>
                  \A o \in Range(kDomains) :
                     /\ \A k \in Range(KeyPool) : Shown(There, o, k) = Shown(Here, o, k)
                     /\ Listed(There, o) = Listed(Here, o)
             /\ ret'.code = 0 =>
                  \A i \in 1..Len(data) :
                     \/ \E j \in (i + 1)..Len(data) : data[j][1] = data[i][1]
                     \/ /\ get(There, d, data[i][1]).out = <<data[i][2]>>
                        /\ data[i][1] \in Listed(There, d)]_vars

\* A batch of two keys failed, and neither key is in the domain.
C5_Witness ==
    /\ call[1] = "putBatch"
    /\ Len(call[3]) = 2 /\ call[3][1][1] # call[3][2][1]
    /\ ret.code # 0
    /\ written[call[2]] = EmptyMap

(* C6: a close() called with the corruption flag set returns with the flag *)
(* cleared; the store is then gone from its path and held, as it was,      *)
(* under <path>.backup, unless the previous backup could not be removed or *)
(* the store could not be moved, and then it is where it was, unchanged.   *)
C6_CloseQuarantinesUnlessRepairFails ==
    [][(kRocksDBCorruptionIndicator /\ call'[1] = "close" /\ pathExists(fs, path_))
       => /\ ~kRocksDBCorruptionIndicator'
          /\ path_' = path_
          /\ IF "failed" \in Outcomes(trace', "removePath") \cup Outcomes(trace', "movePath")
             THEN pathExists(fs', path_) /\ fs'[path_] = fs[path_]
             ELSE /\ ~pathExists(fs', path_)
                  /\ pathExists(fs', BackupPath(path_))
                  /\ fs'[BackupPath(path_)] = fs[path_]]_vars

\* C6 as the specification words it: after a close() called with the flag
\* set, the store is not at its path and the flag is cleared.
C6_CloseAlwaysQuarantines ==
    [][(kRocksDBCorruptionIndicator /\ call'[1] = "close" /\ pathExists(fs, path_))
       => (~pathExists(fs', path_') /\ ~kRocksDBCorruptionIndicator')]_vars

\* A close() with the flag set removed the previous backup and moved the
\* store there.
C6_Witness ==
    /\ call = <<"close">>
    /\ trace = << <<"close">>, <<"repairDB">>, <<"removePath", "ok">>, <<"movePath", "ok">> >>
    /\ ~kRocksDBCorruptionIndicator
    /\ ~pathExists(fs, path_)
    /\ pathExists(fs, BackupPath(path_))

(* C7: no store is opened between the setting of the corruption flag on it *)
(* and its move to the backup path, unless a repair in between failed      *)
(* (the previous backup could not be removed, or the store not moved).     *)
C7_QuarantinedBeforeReopenUnlessRepairFails == quarantine # "reopened"

\* C7 as the specification words it: no store is opened after the flag was
\* set on it and before it is moved to the backup path.
C7_QuarantinedBeforeReopen == quarantine \notin {"reopened", "reopenedUnrepaired"}

\* A setUp found the flag set on the open store, closed it, moved it away
\* and opened a new one.
C7_Witness ==
    /\ call[1] = "setUp"
    /\ Len(trace) >= 4
    /\ trace[1] = <<"close">> /\ trace[2] = <<"repairDB">>
    /\ trace[3] = <<"movePath", "ok">> /\ trace[4] = <<"Open", "ok">>
    /\ quarantine = "clean"
    /\ db_ = "db"
    /\ pathExists(fs, BackupPath(path_))

(* C8: when setUp returns a failure, the engine is Closed: db_ is null and *)
(* there are no handles.                                                   *)
C8_FailedSetUpLeavesClosed ==
    (call[1] = "setUp" /\ ret.code # 0) => (db_ = "nullptr" /\ handles_ = <<>>)

\* The opens of a call and what they answered, in order.
Opens(tr) == SelectSeq(tr, LAMBDA e : e[1] = "Open")

\* The call's last open succeeded.
LastOpenOk(tr) == Opens(tr) # <<>> /\ Opens(tr)[Len(Opens(tr))] = <<"Open", "ok">>

\* The call opened the store, and its last open failed.
LastOpenFailed(tr) == Opens(tr) # <<>> /\ Opens(tr)[Len(Opens(tr))] # <<"Open", "ok">>

(* C9: after a setUp whose last open succeeded the engine is Open, not     *)
(* OpenReadOnly: writes reach the engine.                                  *)
C9_SuccessfulOpenIsWritable ==
    (call[1] = "setUp" /\ LastOpenOk(trace)) =>
       /\ ~read_only_
       /\ \A d \in Range(kDomains) : WriteGate(Here, d, "null") = "go"

(* C10: a setUp whose last open failed, when writing is required, returns  *)
(* a failure and changes neither read_only_ nor FLAGS_disable_events;      *)
(* when writing is optional, it sets both, returns success and does not    *)
(* call platformChmod.                                                     *)
C10_OpenFailureHandling ==
    [][(call'[1] = "setUp" /\ LastOpenFailed(trace'))
       => IF call'[2]
          THEN /\ ret'.code # 0
               /\ read_only_' = read_only_
               /\ FLAGS_disable_events' = FLAGS_disable_events
          ELSE /\ read_only_'
               /\ FLAGS_disable_events'
               /\ ret'.code = 0
               /\ Outcomes(trace', "platformChmod") = {}]_vars

\* A setUp with writing optional found the store corrupt, moved it away,
\* failed to open again, and degraded.
C10_Witness ==
    /\ call = <<"setUp", FALSE>>
    /\ Opens(trace) = << <<"Open", "corruption">>, <<"Open", "ioerror">> >>
    /\ <<"movePath", "ok">> \in Range(trace)
    /\ read_only_ /\ FLAGS_disable_events
    /\ ret.code = 0
    /\ db_ = "nullptr"

\* The commits a call issued: its Write, Delete and DeleteRange calls.
Commits(tr) == SelectSeq(tr, LAMBDA e : e[1] \in {"Write", "Delete", "DeleteRange"})

(* C11: every commit of putBatch, remove and removeRange has the           *)
(* durability mode of its domain: for the events domain disableWAL is set  *)
(* and sync is not; for every other domain sync is set.                    *)
C11_DurabilityPolicy ==
    (call[1] \in WriteOps /\ call[2] \in Range(kDomains)) =>
       \A i \in 1..Len(Commits(trace)) :
          LET e == Commits(trace)[i]
          IN IF call[2] = kEvents
             THEN e[3] = "nosync" /\ e[4] = "disableWAL"
             ELSE e[3] = "sync"

(* C17: a put, putBatch, remove or removeRange called while the engine is  *)
(* Closed and not marked read-only returns an error, and the process       *)
(* lives: no null db_ is used and no missing element of handles_ is read.  *)
C17_WritesWhileClosedReturnError ==
    [][(db_ = "nullptr" /\ ~read_only_ /\ ~crashed /\ call'[1] \in WriteOps)
       => (~crashed' /\ ret'.code # 0)]_vars

(* C18: a removeRange on an open engine returns a failure whenever one of  *)
(* the engine calls it made failed.                                        *)
C18_RemoveRangeReportsFailure ==
    (/\ EngineOpen
     /\ call[1] = "removeRange" /\ call[2] \in Range(kDomains)
     /\ \E i \in 1..Len(Commits(trace)) :
           Commits(trace)[i][Len(Commits(trace)[i])] # "ok")
    => ret.code # 0

(* C19: while the engine is open, every domain of the list resolves to the *)
(* handle opened for the descriptor of its own name, two domains never to  *)
(* the same handle, and a call that does not close or open the engine      *)
(* leaves what a domain resolves to as it was.                             *)
C19_DomainResolvesToItsOwnHandle ==
    [][db_' = "db" =>
         /\ \A d \in Range(kDomains) : getHandleForColumnFamily(There, d) = d
         /\ \A d \in Range(kDomains), e \in Range(kDomains) :
               d # e => getHandleForColumnFamily(There, d) # getHandleForColumnFamily(There, e)
         /\ (db_ = "db" /\ call'[1] \notin {"setUp", "close"}) =>
               \A d \in Range(kDomains) :
                  getHandleForColumnFamily(There, d) = getHandleForColumnFamily(Here, d)]_vars

\* The calls that name a domain.
DomainOps == WriteOps \cup {"get", "scan"}

NotOpened == Status(1, <<"Database not opened">>)

(* C12: on an open engine a get, scan, put, putBatch, remove or            *)
(* removeRange that names a domain outside the list returns the            *)
(* domain-not-found error; and a call that returns the not-opened or the   *)
(* domain-not-found error leaves the plugin (db_, handles_, read_only_,    *)
(* its configuration, the flags) and the stored records as they were.      *)
C12_UnknownDomainAndPerCallErrors ==
    [][(~crashed /\ call'[1] \in DomainOps)
       => /\ (EngineOpen /\ call'[2] \notin Range(kDomains))
                => ret' = NoColumnFamily(call'[2])
          /\ ret' \in {NotOpened, NoColumnFamily(call'[2])}
                => /\ ~crashed'
                   /\ UNCHANGED <<initialized_, column_families_, path_, handles_, db_,
                                  read_only_, kRocksDBCorruptionIndicator,
                                  FLAGS_disable_events, fs>>]_vars

\* A put to an unknown domain on an open engine that holds a record was
\* answered with the domain-not-found error.
C12_Witness ==
    /\ EngineOpen
    /\ call[1] = "put" /\ call[2] = "bogus"
    /\ ret = NoColumnFamily("bogus")
    /\ \E d \in Range(kDomains) : written[d] # EmptyMap

\* Where in a call's trace the given events are.
At(tr, what) == {i \in 1..Len(tr) : tr[i][1] = what}

(* C13: a setUp opens the engine at most twice; it opens it a second time  *)
(* exactly when the first open answered Corruption, and then repairDB ran  *)
(* once between the two opens and not again after the second, whatever     *)
(* the second open answered.                                               *)
C13_OpenAtMostTwice ==
    (call[1] = "setUp" /\ At(trace, "Open") # {}) =>
       LET opens == At(trace, "Open")
           first == CHOOSE i \in opens : \A j \in opens : i <= j
           last == CHOOSE i \in opens : \A j \in opens : j <= i
           repairs == {i \in At(trace, "repairDB") : i > first}
       IN /\ Cardinality(opens) <= 2
          /\ Cardinality(opens) = 2 <=> trace[first] = <<"Open", "corruption">>
          /\ Cardinality(opens) = 2 =>
                Cardinality(repairs) = 1 /\ \A i \in repairs : i < last
          /\ Cardinality(opens) = 1 => repairs = {}

\* A setUp found the store corrupt, repaired, and found it corrupt again.
C13_Witness ==
    /\ call[1] = "setUp"
    /\ Opens(trace) = << <<"Open", "corruption">>, <<"Open", "corruption">> >>
    /\ Cardinality(At(trace, "repairDB")) = 2

(* C14: a repair that finds a previous backup removes it before it moves   *)
(* the store: removePath is the first thing repairDB does, movePath comes  *)
(* right after a removal that succeeded, and the store then takes the      *)
(* backup's place; after a removal that failed nothing follows, and the    *)
(* store and the previous backup are as they were.                         *)
C14_BackupRemovedBeforeMove ==
    [][(/\ Cardinality(At(trace', "repairDB")) = 1
        /\ pathExists(fs, FLAGS_database_path)
        /\ pathExists(fs, BackupPath(FLAGS_database_path)))
       => LET r == CHOOSE i \in At(trace', "repairDB") : TRUE
              bpath == BackupPath(FLAGS_database_path)
          IN /\ Len(trace') > r /\ trace'[r + 1][1] = "removePath"
             /\ At(trace', "movePath") \subseteq {r + 2}
             /\ IF trace'[r + 1] = <<"removePath", "failed">>
                THEN At(trace', "movePath") = {} /\ fs' = fs
                ELSE /\ At(trace', "movePath") = {r + 2}
                     /\ trace'[r + 2] = <<"movePath", "ok">>
                           => (pathExists(fs', bpath)
                               /\ fs'[bpath] = fs[FLAGS_database_path])
                     /\ trace'[r + 2] = <<"movePath", "failed">>
                           => (~pathExists(fs', bpath)
                               /\ fs'[FLAGS_database_path] = fs[FLAGS_database_path])]_vars

\* A close() found the flag set and a previous backup it could not remove:
\* the store that holds a record and the previous backup are both there.
C14_Witness ==
    /\ call = <<"close">>
    /\ trace = << <<"close">>, <<"repairDB">>, <<"removePath", "failed">> >>
    /\ pathExists(fs, path_) /\ pathExists(fs, BackupPath(path_))
    /\ \E c \in DOMAIN fs[path_] : fs[path_][c] # EmptyMap

(* C15: a setUp that succeeds with the engine open, and that moved the     *)
(* store to the backup path itself or is the first to open the engine      *)
(* since a close() did, opens a new, empty store: in every domain get      *)
(* answers NotFound for every key and scan answers OK with no key; the     *)
(* backup path holds what the store held before it was moved.              *)
C15_FreshStoreAfterRepair ==
    [][(/\ call'[1] = "setUp" /\ ret'.code = 0 /\ db_' = "db"
        /\ \/ <<"movePath", "ok">> \in Range(trace')
           \/ /\ ~pathExists(fs, FLAGS_database_path)
              /\ pathExists(fs, BackupPath(FLAGS_database_path)))
       => LET bpath == BackupPath(FLAGS_database_path)
          IN /\ \A d \in Range(kDomains) :
                  /\ \A k \in Range(KeyPool) : Shown(There, d, k) = Missing
                  /\ scan(There, d, <<>>, <<>>, 0).status = Status(0, <<"OK">>)
                  /\ scan(There, d, <<>>, <<>>, 0).out = <<>>
             /\ pathExists(fs', bpath)
             /\ fs'[bpath] = IF <<"movePath", "ok">> \in Range(trace')
                             THEN fs[FLAGS_database_path]
                             ELSE fs[bpath]]_vars

\* The line holds the corruption marker, wherever in it.
HasMarker(line) == \E i \in 3..Len(line) : line[i][1] = "Corruption:"

(* C20: Logv sets the corruption flag exactly for the lines that start     *)
(* with "[E" or "[W" and hold "Corruption:" within the characters the      *)
(* buffer keeps (one less than kLogBufferSize), and leaves it as it was    *)
(* for every other line; it never clears it.  Only a call that runs        *)
(* close() with the flag set, after repairDB, takes the flag from true to  *)
(* false.                                                                  *)
C20_LogvSetsFlagOnKeptMarker ==
    [][/\ call'[1] = "Logv" =>
            kRocksDBCorruptionIndicator' =
               (\/ kRocksDBCorruptionIndicator
                \/ /\ call'[2][1] = "[" /\ call'[2][2] \in {"E", "W"}
                   /\ InLogLine(call'[2], "Corruption:"))
       /\ (kRocksDBCorruptionIndicator /\ ~kRocksDBCorruptionIndicator') =>
            /\ call'[1] \in {"close", "setUp"}
            /\ Len(trace') >= 2
            /\ trace'[1] = <<"close">> /\ trace'[2] = <<"repairDB">>]_vars

\* C20 as the specification words it: Logv sets the flag for every line
\* that holds the marker.
C20_LogvSetsFlagOnEveryMarker ==
    [][call'[1] = "Logv" =>
          kRocksDBCorruptionIndicator' =
             (kRocksDBCorruptionIndicator \/ HasMarker(call'[2]))]_vars

\* Logv set the flag for an error line whose marker ends where the buffer
\* ends.
C20_Witness ==
    /\ call = <<"Logv", <<"[", "E", <<"Corruption:", kLogBufferSize - 12>> >> >>
    /\ kRocksDBCorruptionIndicator
    /\ trace = << <<"LOG(INFO)">> >>

\* The handles one DB::Open made.
Generation(n) == {o \in DOMAIN heap : o[2] = n}

(* C16: however a close() interleaves with a close() or a setUp() of       *)
(* another thread, no handle is released twice, and when no close() is     *)
(* under way (the lock is free) no DB::Open's handles are released in part *)
(* only: the partition handles without the store handle, or the store      *)
(* handle without the partition handles.                                   *)
C16_NoDoubleReleaseNoPartialHandleSet ==
    /\ \A o \in DOMAIN heap : heap[o] # "releasedTwice"
    /\ close_mutex_ = "free" =>
          \A n \in Opened :
             \/ \A o \in Generation(n) : heap[o] = "live"
             \/ \A o \in Generation(n) : heap[o] = "released"

====
